---- MODULE Spec2Model ----
(***************************************************************************)
(* Model of OPi.GPIO (src/OPi/GPIO.py): the process-wide numbering scheme  *)
(* and export ledger, and the hardware PWM channel controller (class PWM). *)
(*                                                                         *)
(* The sysfs control surface (OPi/sysfs.py) and the pin tables             *)
(* (OPi/pin_mappings.py) are modelled from the specification's description *)
(* of the control surface (sections 1, 4.4 and 6).                         *)
(***************************************************************************)
EXTENDS Integers, Sequences, FiniteSets, TLC

(***************************************************************************)
(* Bounds of the model.  The tables list the argument values the calls are *)
(* tried with; the bounds say how many entries of each table are used.     *)
(***************************************************************************)
FreqTable == <<1000, 500, 6000, 1024, 2000, 250>>
PercentTable == <<50, 150, -10, 0, 100, 30>>
NumFreqs == 3
NumPercents == 4
NumChannels == 2
MaxPending == 1
MaxQueue == 2
MaxCallbacks == 2

Freqs == {FreqTable[i] : i \in 1..NumFreqs}
Percents == {PercentTable[i] : i \in 1..NumPercents}

(* Nanoseconds per second: the 1e9 of change_frequency. *)
NS_PER_S == 1000000000

(* errno 16, "Device or resource busy", as tested by the handlers. *)
EBUSY == 16

VARIABLES
    \* ---- module state of GPIO.py
    _mode,              \* _mode: None or the numbering scheme
    _exports,           \* _exports: configured channels and directions, in insertion order
    _gpio_warnings,     \* _gpio_warnings
    gpio_pins,          \* control surface: the GPIO pins currently exported
    gpio_last,          \* the last GPIO call: [op, arg, res]
    gpio_sys,           \* control surface: direction and value of every pin
    gpio_in,            \* the arguments of the last GPIO call
    gpio_log,           \* the control-surface calls issued by the last GPIO call
    gpio_ret,           \* the value the last GPIO call returned (NoValue = None)
    setup_pin,          \* for every channel, the pin its setup exported (0 = none)
    last_write,         \* for every channel, the value last written to it (NoValue = none)
    _threads,           \* event module: the edge watch of every pin
    queue,              \* event module: the callbacks handed to the dispatcher
    dispatcher,         \* event module: the callbacks the dispatcher is running
    waiter,             \* event module: the caller blocked in wait_for_edge
    \* ---- one PWM object and its channel
    life,               \* "none", "open" (constructed) or "closed" (after pwm_close)
    frequency,          \* self.frequency
    duty_cycle_percent, \* self.duty_cycle_percent
    invert_polarity,    \* self.invert_polarity
    sys,                \* control surface: the attributes of the PWM channel
    last,               \* the last PWM call: [op, arg, res]
    log,                \* the control-surface calls issued by the last PWM call
    polarity_calls      \* parity of the completed pwm_polarity calls on the object

gpio_vars == <<_mode, _exports, _gpio_warnings, gpio_pins, gpio_last,
               gpio_sys, gpio_in, gpio_log, gpio_ret, setup_pin, last_write,
               _threads, queue, dispatcher, waiter>>
pwm_vars == <<life, frequency, duty_cycle_percent, invert_polarity, sys, last,
              log, polarity_calls>>
vars == <<_mode, _exports, _gpio_warnings, gpio_pins, gpio_last,
          gpio_sys, gpio_in, gpio_log, gpio_ret, setup_pin, last_write,
          _threads, queue, dispatcher, waiter,
          life, frequency, duty_cycle_percent, invert_polarity, sys, last,
          log, polarity_calls>>

(***************************************************************************)
(* Python's round(x, 0) on n/d: nearest integer, ties to the even one.     *)
(***************************************************************************)
RoundHalfEven(n, d) ==
    LET q == n \div d
        r == n % d
    IN  IF 2 * r > d THEN q + 1
        ELSE IF 2 * r < d THEN q
        ELSE IF q % 2 = 0 THEN q ELSE q + 1

(* pwm_period = int(round((1 / new_frequency) * 1e9, 0)) *)
PeriodOf(f) == RoundHalfEven(NS_PER_S, f)

(* duty_cycle = int(round((self.duty_cycle_percent / 100) * pwm_period, 0)) *)
DutyOf(percent, period) == RoundHalfEven(percent * period, 100)

(* The comparison of change_frequency reversed. *)
PeriodFirstReversed(pwm_period, old_pwm_period) == pwm_period < old_pwm_period

(* if (pwm_period > old_pwm_period):  # if increasing *)
PeriodFirst(pwm_period, old_pwm_period) == pwm_period > old_pwm_period

(***************************************************************************)
(* The control surface of one PWM channel.  A channel that has just been   *)
(* exported is disabled, has normal polarity and a period and duty-cycle   *)
(* length of zero.                                                         *)
(***************************************************************************)
SysDefault(exported) ==
    [exported |-> exported, enable |-> FALSE, polarity |-> FALSE,
     period |-> 0, duty_cycle |-> 0]

Reply(s, err, attr, val) == [sys |-> s, err |-> err, attr |-> attr, val |-> val]

(* Writing an already-exported identifier yields a resource-busy failure. *)
PWM_Export(s) ==
    IF s.exported THEN Reply(s, "busy", "export", 0)
    ELSE Reply(SysDefault(TRUE), "ok", "export", 0)

PWM_Unexport(s) ==
    IF ~s.exported THEN Reply(s, "notfound", "unexport", 0)
    ELSE Reply(SysDefault(FALSE), "ok", "unexport", 0)

(* The control surface forbids changing polarity on an active channel. *)
PWM_Polarity(s, invert) ==
    LET v == IF invert THEN 1 ELSE 0
    IN  IF ~s.exported THEN Reply(s, "notfound", "polarity", v)
        ELSE IF s.enable THEN Reply(s, "invalid", "polarity", v)
        ELSE Reply([s EXCEPT !.polarity = invert], "ok", "polarity", v)

PWM_Enable(s) ==
    IF ~s.exported THEN Reply(s, "notfound", "enable", 1)
    ELSE Reply([s EXCEPT !.enable = TRUE], "ok", "enable", 1)

PWM_Disable(s) ==
    IF ~s.exported THEN Reply(s, "notfound", "enable", 0)
    ELSE Reply([s EXCEPT !.enable = FALSE], "ok", "enable", 0)

(* The control surface rejects a write that would leave                    *)
(* duty_cycle_length > period_length.                                      *)
PWM_Period(s, v) ==
    IF ~s.exported THEN Reply(s, "notfound", "period", v)
    ELSE IF v < 0 \/ s.duty_cycle > v THEN Reply(s, "invalid", "period", v)
    ELSE Reply([s EXCEPT !.period = v], "ok", "period", v)

(* A control surface that accepts any duty-cycle-length. *)
PWM_Duty_CycleUnchecked(s, v) ==
    IF ~s.exported THEN Reply(s, "notfound", "duty_cycle", v)
    ELSE Reply([s EXCEPT !.duty_cycle = v], "ok", "duty_cycle", v)

PWM_Duty_Cycle(s, v) ==
    IF ~s.exported THEN Reply(s, "notfound", "duty_cycle", v)
    ELSE IF v < 0 \/ v > s.period THEN Reply(s, "invalid", "duty_cycle", v)
    ELSE Reply([s EXCEPT !.duty_cycle = v], "ok", "duty_cycle", v)

(* Sets the period that corresponds to a frequency in hertz. *)
PWM_Frequency(s, f) == PWM_Period(s, PeriodOf(f))

(* Converts the percentage to nanoseconds against the current period. *)
PWM_Duty_Cycle_Percent(s, percent) == PWM_Duty_Cycle(s, DutyOf(percent, s.period))

Sysfs(fn, s, arg) ==
    CASE fn = "PWM_Export" -> PWM_Export(s)
      [] fn = "PWM_Unexport" -> PWM_Unexport(s)
      [] fn = "PWM_Polarity" -> PWM_Polarity(s, arg = 1)
      [] fn = "PWM_Enable" -> PWM_Enable(s)
      [] fn = "PWM_Disable" -> PWM_Disable(s)
      [] fn = "PWM_Period" -> PWM_Period(s, arg)
      [] fn = "PWM_Duty_Cycle" -> PWM_Duty_Cycle(s, arg)
      [] fn = "PWM_Frequency" -> PWM_Frequency(s, arg)
      [] fn = "PWM_Duty_Cycle_Percent" -> PWM_Duty_Cycle_Percent(s, arg)

(***************************************************************************)
(* Running a handler: st = [sys, err, log, n] is the control surface, the  *)
(* pending exception ("ok" = none), the calls issued so far and their      *)
(* number.  A call is skipped while an exception is pending.  failAt is    *)
(* the index of the call that fails with an I/O error of the underlying    *)
(* surface (0 = none); such an error is not errno EBUSY.                   *)
(***************************************************************************)
Begin(s) == [sys |-> s, err |-> "ok", log |-> <<>>, n |-> 0]

Call(st, fn, arg, failAt) ==
    IF st.err # "ok" THEN st
    ELSE LET k == st.n + 1
             r == Sysfs(fn, st.sys, arg)
             failed == k = failAt
             entry == [attr |-> r.attr, val |-> r.val,
                       err |-> IF failed THEN "io" ELSE r.err,
                       period |-> st.sys.period,
                       duty_cycle |-> st.sys.duty_cycle,
                       enable |-> st.sys.enable]
         IN  [sys |-> IF failed THEN st.sys ELSE r.sys,
              err |-> entry.err,
              log |-> Append(st.log, entry),
              n |-> k]

(* The errno of the exception a failed call raises. *)
Errno(err) == IF err = "busy" THEN EBUSY ELSE 0

Written(l, attr) == {i \in 1..Len(l) : l[i].attr = attr}

(***************************************************************************)
(* Initial state: the module has just been imported, no PWM object exists. *)
(***************************************************************************)
NoCall == [op |-> "none", arg |-> 0, res |-> "ok"]

(* The pins of the control surface that the channels can resolve to. *)
Pins == 1..(NumChannels + 3)

(* The value of a call that returns None. *)
NoValue == -1

(* A pin that is not exported, or has just been exported: an input at low level. *)
GpioSysDefault == [dir |-> [p \in Pins |-> "in"], val |-> [p \in Pins |-> 0]]

(* A pin without edge watch (Idle).  edges tells how many qualifying edges *)
(* were latched since the last poll: 0, 1, or 2 for several.               *)
NoWatch == [on |-> FALSE, trigger |-> "NONE", latch |-> FALSE, cbs |-> <<>>,
            pending |-> 0, edges |-> 0]

(* An idle dispatcher: nothing running; prev is, for every pin, the place *)
(* in the pin's registration list of the callback started last (0 = none) *)
NoDispatch == [running |-> {}, prev |-> [p \in Pins |-> 0]]

(* No call of wait_for_edge is blocked *)
NoWait == [on |-> FALSE, channel |-> 0, pin |-> 0, trigger |-> "NONE",
           timeout |-> -1, edge |-> FALSE, expired |-> FALSE]

NoArgs == [chs |-> <<>>, list |-> FALSE, dir |-> "", vals |-> <<>>, vlist |-> FALSE,
           fail |-> 0]

Init ==
    /\ _mode = "None"
    /\ _exports = <<>>
    /\ _gpio_warnings = TRUE
    /\ gpio_pins = {}
    /\ gpio_last = NoCall
    /\ gpio_sys = GpioSysDefault
    /\ gpio_in = NoArgs
    /\ gpio_log = <<>>
    /\ gpio_ret = NoValue
    /\ setup_pin = [c \in 1..NumChannels |-> 0]
    /\ last_write = [c \in 1..NumChannels |-> NoValue]
    /\ _threads = [p \in Pins |-> NoWatch]
    /\ queue = <<>>
    /\ dispatcher = NoDispatch
    /\ waiter = NoWait
    /\ life = "none"
    /\ frequency = 0
    /\ duty_cycle_percent = 0
    /\ invert_polarity = FALSE
    /\ sys = SysDefault(FALSE)
    /\ last = NoCall
    /\ log = <<>>
    /\ polarity_calls = 0

(* The calls of a handler that an I/O error can hit (0 = no error), for a *)
(* handler that issues at most n calls.                                   *)
FailPoints(n) == 0..n

(***************************************************************************)
(* PWM.__init__(chip, pin, frequency, duty_cycle_percent, invert_polarity) *)
(***************************************************************************)
(* except (OSError, IOError) as e: if e.errno == 16: unexport, export *)
InitBusyHandler(st, f, invert, failAt) ==
    LET a == Call([st EXCEPT !.err = "ok"], "PWM_Unexport", 0, failAt)
    IN  Call(a, "PWM_Export", 0, failAt)

(* try: PWM_Export, PWM_Polarity, PWM_Enable, return PWM_Frequency *)
InitTry(s, f, invert, failAt) ==
    LET a == Call(Begin(s), "PWM_Export", 0, failAt)
        b == Call(a, "PWM_Polarity", IF invert THEN 1 ELSE 0, failAt)
        c == Call(b, "PWM_Enable", 0, failAt)
    IN  Call(c, "PWM_Frequency", f, failAt)

InitRun(s, f, invert, failAt) ==
    LET t == InitTry(s, f, invert, failAt)
    IN  IF t.err # "ok" /\ Errno(t.err) = EBUSY
        THEN InitBusyHandler(t, f, invert, failAt)
        ELSE t

PWM_init(f, percent, invert, failAt) ==
    /\ life = "none"
    /\ LET st == InitRun(sys, f, invert, failAt)
       IN  /\ sys' = st.sys
           /\ log' = st.log
           /\ last' = [op |-> "PWM", arg |-> f, res |-> st.err]
           /\ IF st.err = "ok"
              THEN /\ life' = "open"
                   /\ frequency' = f
                   /\ duty_cycle_percent' = percent
                   /\ invert_polarity' = invert
                   /\ polarity_calls' = 0
              ELSE UNCHANGED <<life, frequency, duty_cycle_percent,
                               invert_polarity, polarity_calls>>
    /\ UNCHANGED gpio_vars

(***************************************************************************)
(* PWM.start_pwm() and PWM.stop_pwm()                                      *)
(***************************************************************************)
start_pwm(failAt) ==
    /\ life \in {"open", "closed"}
    /\ LET st == Call(Begin(sys), "PWM_Duty_Cycle_Percent", duty_cycle_percent, failAt)
       IN  /\ sys' = st.sys
           /\ log' = st.log
           /\ last' = [op |-> "start_pwm", arg |-> 0, res |-> st.err]
    /\ UNCHANGED <<life, frequency, duty_cycle_percent, invert_polarity, polarity_calls>>
    /\ UNCHANGED gpio_vars

(* A stop that disables the channel instead of writing a zero duty cycle. *)
StopRunDisabling(s, failAt) == Call(Begin(s), "PWM_Disable", 0, failAt)

(* return sysfs.PWM_Duty_Cycle_Percent(self.chip, self.pin, 0) *)
StopRun(s, failAt) == Call(Begin(s), "PWM_Duty_Cycle_Percent", 0, failAt)

stop_pwm(failAt) ==
    /\ life \in {"open", "closed"}
    /\ LET st == StopRun(sys, failAt)
       IN  /\ sys' = st.sys
           /\ log' = st.log
           /\ last' = [op |-> "stop_pwm", arg |-> 0, res |-> st.err]
    /\ UNCHANGED <<life, frequency, duty_cycle_percent, invert_polarity, polarity_calls>>
    /\ UNCHANGED gpio_vars

(***************************************************************************)
(* PWM.change_frequency(new_frequency)                                     *)
(***************************************************************************)
ChangeFrequencyRun(s, old_frequency, percent, new_frequency, failAt) ==
    LET pwm_period == PeriodOf(new_frequency)
        duty == DutyOf(percent, pwm_period)
        old_pwm_period == PeriodOf(old_frequency)
    IN  IF PeriodFirst(pwm_period, old_pwm_period)
        THEN Call(Call(Begin(s), "PWM_Period", pwm_period, failAt),
                  "PWM_Duty_Cycle", duty, failAt)
        ELSE Call(Call(Begin(s), "PWM_Duty_Cycle", duty, failAt),
                  "PWM_Period", pwm_period, failAt)

(* A frequency stored before the writes are known to have succeeded. *)
FrequencyAfterEager(err, old_frequency, new_frequency) == new_frequency

(* self.frequency = new_frequency: reached only when no call raised *)
FrequencyAfter(err, old_frequency, new_frequency) ==
    IF err = "ok" THEN new_frequency ELSE old_frequency

change_frequency(new_frequency, failAt) ==
    /\ life \in {"open", "closed"}
    /\ LET st == ChangeFrequencyRun(sys, frequency, duty_cycle_percent,
                                    new_frequency, failAt)
       IN  /\ sys' = st.sys
           /\ log' = st.log
           /\ last' = [op |-> "change_frequency", arg |-> new_frequency, res |-> st.err]
           /\ frequency' = FrequencyAfter(st.err, frequency, new_frequency)
    /\ UNCHANGED <<life, duty_cycle_percent, invert_polarity, polarity_calls>>
    /\ UNCHANGED gpio_vars

(***************************************************************************)
(* PWM.duty_cycle(duty_cycle_percent)                                      *)
(***************************************************************************)
(* A range test without the upper limit. *)
InRangeNoUpper(percent) == 0 <= percent

(* if (0 <= duty_cycle_percent <= 100): *)
InRange(percent) == 0 <= percent /\ percent <= 100

duty_cycle(percent, failAt) ==
    /\ life \in {"open", "closed"}
    /\ IF InRange(percent)
       THEN LET st == Call(Begin(sys), "PWM_Duty_Cycle_Percent", percent, failAt)
            IN  /\ duty_cycle_percent' = percent
                /\ sys' = st.sys
                /\ log' = st.log
                /\ last' = [op |-> "duty_cycle", arg |-> percent, res |-> st.err]
       ELSE /\ last' = [op |-> "duty_cycle", arg |-> percent, res |-> "OutOfRange"]
            /\ log' = <<>>
            /\ UNCHANGED <<duty_cycle_percent, sys>>
    /\ UNCHANGED <<life, frequency, invert_polarity, polarity_calls>>
    /\ UNCHANGED gpio_vars

(***************************************************************************)
(* PWM.pwm_polarity()                                                      *)
(***************************************************************************)
(* PWM_Disable; PWM_Polarity(invert=not(self.invert_polarity)); PWM_Enable *)
PolarityRun(s, invert, failAt) ==
    LET a == Call(Begin(s), "PWM_Disable", 0, failAt)
        b == Call(a, "PWM_Polarity", IF ~invert THEN 1 ELSE 0, failAt)
    IN  Call(b, "PWM_Enable", 0, failAt)

pwm_polarity(failAt) ==
    /\ life \in {"open", "closed"}
    /\ LET st == PolarityRun(sys, invert_polarity, failAt)
       IN  /\ sys' = st.sys
           /\ log' = st.log
           /\ last' = [op |-> "pwm_polarity", arg |-> 0, res |-> st.err]
           /\ polarity_calls' = IF st.err = "ok" THEN 1 - polarity_calls
                                ELSE polarity_calls
    /\ UNCHANGED <<life, frequency, duty_cycle_percent, invert_polarity>>
    /\ UNCHANGED gpio_vars

(***************************************************************************)
(* PWM.pwm_close()                                                         *)
(***************************************************************************)
pwm_close(failAt) ==
    /\ life \in {"open", "closed"}
    /\ LET st == Call(Begin(sys), "PWM_Unexport", 0, failAt)
       IN  /\ sys' = st.sys
           /\ log' = st.log
           /\ last' = [op |-> "pwm_close", arg |-> 0, res |-> st.err]
           /\ life' = IF st.err = "ok" THEN "closed" ELSE life
    /\ UNCHANGED <<frequency, duty_cycle_percent, invert_polarity, polarity_calls>>
    /\ UNCHANGED gpio_vars

NextPWM ==
    \/ \E f \in Freqs, p \in Percents, i \in BOOLEAN, k \in FailPoints(4) :
           PWM_init(f, p, i, k)
    \/ \E k \in FailPoints(1) : start_pwm(k)
    \/ \E k \in FailPoints(1) : stop_pwm(k)
    \/ \E f \in Freqs, k \in FailPoints(2) : change_frequency(f, k)
    \/ \E p \in Percents, k \in FailPoints(1) : duty_cycle(p, k)
    \/ \E k \in FailPoints(3) : pwm_polarity(k)
    \/ \E k \in FailPoints(1) : pwm_close(k)

(* The PWM controller: one controller object, from the attempts to         *)
(* construct it to the calls made on it after pwm_close.                   *)
Spec == Init /\ [][NextPWM]_vars

(* Construction followed by change_frequency calls only. *)
NextCF ==
    \/ \E f \in Freqs, p \in Percents, i \in BOOLEAN, k \in FailPoints(4) :
           PWM_init(f, p, i, k)
    \/ \E f \in Freqs, k \in FailPoints(2) :
           life = "open" /\ change_frequency(f, k)

SpecCF == Init /\ [][NextCF]_vars

(***************************************************************************)
(* The GPIO module: numbering scheme, ledger of configured channels and    *)
(* the pins exported on the control surface.                               *)
(***************************************************************************)
Channels == 1..NumChannels
Modes == {"BOARD", "BCM", "SUNXI", "CUSTOM"}
Directions == {"IN", "OUT"}

(* The pin a channel resolves to under a numbering scheme: the schemes     *)
(* number the same pins differently.                                       *)
get_gpio_pin(mode, channel) ==
    CASE mode = "BOARD" -> channel
      [] mode = "BCM" -> channel + 1
      [] mode = "SUNXI" -> channel + 2
      [] OTHER -> channel + 3

Configured(exports, channel) ==
    \E i \in 1..Len(exports) : exports[i].channel = channel

Without(exports, channel) ==
    SelectSeq(exports, LAMBDA e : e.channel # channel)

GpioCall(op, channel, res) == [op |-> op, arg |-> channel, res |-> res]

(***************************************************************************)
(* The pin control surface: export and unexport, the direction and value   *)
(* attributes.  Exporting an exported pin is "busy", every operation on a  *)
(* pin that is not exported is "notfound", and the value of an input       *)
(* cannot be written.  An exported pin starts as an input.                 *)
(***************************************************************************)
GpioReply(g, err) == [g EXCEPT !.err = err]

GPIO_Export(g, pin) ==
    IF pin \in g.pins THEN GpioReply(g, "busy")
    ELSE [g EXCEPT !.pins = g.pins \cup {pin}]

GPIO_Unexport(g, pin) ==
    IF pin \notin g.pins THEN GpioReply(g, "notfound")
    ELSE [g EXCEPT !.pins = g.pins \ {pin},
                   !.s.dir[pin] = "in", !.s.val[pin] = 0]

GPIO_Direction(g, pin, out) ==
    IF pin \notin g.pins THEN GpioReply(g, "notfound")
    ELSE IF out = 1 THEN [g EXCEPT !.s.dir[pin] = "out", !.s.val[pin] = 0]
    ELSE [g EXCEPT !.s.dir[pin] = "in"]

(* value 2 stands for a value the attribute does not accept *)
GPIO_Output(g, pin, value) ==
    IF pin \notin g.pins THEN GpioReply(g, "notfound")
    ELSE IF g.s.dir[pin] = "in" \/ value \notin {0, 1} THEN GpioReply(g, "invalid")
    ELSE [g EXCEPT !.s.val[pin] = value]

GPIO_Input(g, pin) ==
    IF pin \notin g.pins THEN GpioReply(g, "notfound")
    ELSE [g EXCEPT !.ret = g.s.val[pin]]

GpioSysfs(fn, g, pin, arg) ==
    CASE fn = "export" -> GPIO_Export(g, pin)
      [] fn = "unexport" -> GPIO_Unexport(g, pin)
      [] fn = "direction" -> GPIO_Direction(g, pin, arg)
      [] fn = "output" -> GPIO_Output(g, pin, arg)
      [] OTHER -> GPIO_Input(g, pin)

(* event.cleanup(pin): stops and joins the watcher of the pin, if any *)
Event_Cleanup(g, pin) ==
    [g EXCEPT !.thr[pin] = NoWatch,
              !.log = Append(g.log, [fn |-> "event.cleanup", pin |-> pin,
                                     arg |-> 0, err |-> "ok"])]

(***************************************************************************)
(* The execution of one GPIO call: the ledger, the control surface, the    *)
(* edge watches, the pending exception, the control-surface calls issued   *)
(* so far and the return value.  The failAt-th control-surface call of     *)
(* the handler fails with an I/O error (0 = none does).                    *)
(***************************************************************************)
GpioBegin ==
    [exports |-> _exports, sp |-> setup_pin, lw |-> last_write, pins |-> gpio_pins,
     s |-> gpio_sys,
     thr |-> _threads, err |-> "ok", log |-> <<>>, n |-> 0, ret |-> NoValue]

GCall(g, fn, pin, arg, failAt) ==
    IF g.err # "ok" THEN g
    ELSE LET r == IF g.n + 1 = failAt THEN GpioReply(g, "ioerror")
                  ELSE GpioSysfs(fn, g, pin, arg)
         IN  [r EXCEPT !.n = g.n + 1,
                       !.log = Append(g.log, [fn |-> fn, pin |-> pin,
                                              arg |-> arg, err |-> r.err])]

DirectionOf(exports, channel) ==
    LET i == CHOOSE i \in 1..Len(exports) : exports[i].channel = channel
    IN  exports[i].direction

_check_configuredAnyDirection(exports, channel, direction) ==
    IF ~Configured(exports, channel) THEN "NotConfigured" ELSE "ok"

(* _check_configured(channel, direction): direction "" is None *)
_check_configured(exports, channel, direction) ==
    IF ~Configured(exports, channel) THEN "NotConfigured"
    ELSE IF direction # "" /\ direction # DirectionOf(exports, channel)
    THEN "WrongDirection"
    ELSE "ok"

(* setmode: a mapping selects CUSTOM; assert mode in [...]; _mode = mode *)
SetmodeResult(mode, arg) ==
    IF arg = "mapping" THEN [mode |-> "CUSTOM", res |-> "ok"]
    ELSE IF arg \in Modes THEN [mode |-> arg, res |-> "ok"]
    ELSE [mode |-> mode, res |-> "AssertionError"]

GpioFrame ==
    UNCHANGED <<_exports, gpio_pins, gpio_sys, setup_pin, last_write, _threads,
                queue, dispatcher, waiter>>

setmode(arg) ==
    /\ LET r == SetmodeResult(_mode, arg)
       IN  /\ _mode' = r.mode
           /\ gpio_last' = GpioCall("setmode", 0, r.res)
    /\ gpio_in' = NoArgs
    /\ gpio_log' = <<>>
    /\ gpio_ret' = NoValue
    /\ GpioFrame
    /\ UNCHANGED _gpio_warnings
    /\ UNCHANGED pwm_vars

setwarnings(enabled) ==
    /\ _gpio_warnings' = enabled
    /\ gpio_last' = GpioCall("setwarnings", 0, "ok")
    /\ gpio_in' = NoArgs
    /\ gpio_log' = <<>>
    /\ gpio_ret' = NoValue
    /\ GpioFrame
    /\ UNCHANGED _mode
    /\ UNCHANGED pwm_vars

(* getmode() returns _mode *)
getmode ==
    /\ gpio_last' = GpioCall("getmode", 0, _mode)
    /\ gpio_in' = NoArgs
    /\ gpio_log' = <<>>
    /\ gpio_ret' = NoValue
    /\ GpioFrame
    /\ UNCHANGED <<_mode, _gpio_warnings>>
    /\ UNCHANGED pwm_vars

(* The state a call leaves behind, and the record of the call. *)
GpioCommit(op, args, g) ==
    /\ _exports' = g.exports
    /\ setup_pin' = g.sp
    /\ last_write' = g.lw
    /\ gpio_pins' = g.pins
    /\ gpio_sys' = g.s
    /\ _threads' = g.thr
    /\ gpio_log' = g.log
    /\ gpio_ret' = IF g.err = "ok" THEN g.ret ELSE NoValue
    /\ gpio_last' = GpioCall(op, IF args.chs = <<>> THEN 0 ELSE args.chs[1], g.err)
    /\ gpio_in' = args

SetupExportNoRetry(g, pin, failAt) == GCall(g, "export", pin, 0, failAt)

(* The export of setup: a busy pin is unexported and exported again. *)
SetupExport(g, pin, failAt) ==
    LET g1 == GCall(g, "export", pin, 0, failAt)
    IN  IF g1.err = "busy"
        THEN GCall(GCall([g1 EXCEPT !.err = "ok"], "unexport", pin, 0, failAt),
                   "export", pin, 0, failAt)
        ELSE g1

(* pin = get_gpio_pin(...); export; direction; _exports[channel] =         *)
(* direction; the initial value of an output (initial NoValue is None)     *)
SetupPin(g, mode, channel, direction, initial, failAt) ==
    LET pin == get_gpio_pin(mode, channel)
        g1 == SetupExport(g, pin, failAt)
        g2 == GCall(g1, "direction", pin, IF direction = "OUT" THEN 1 ELSE 0, failAt)
        g3 == IF g2.err # "ok" THEN g2
              ELSE [g2 EXCEPT !.exports = Append(g2.exports,
                                  [channel |-> channel, direction |-> direction]),
                              !.sp[channel] = pin,
                              !.lw[channel] = NoValue]
        g4 == GCall(g3, "output", pin, initial, failAt)
    IN  IF direction = "OUT" /\ initial # NoValue
        THEN IF g4.err = "ok" THEN [g4 EXCEPT !.lw[channel] = initial] ELSE g4
        ELSE g3

SetupOneUnchecked(g, mode, channel, direction, initial, failAt) ==
    IF g.err # "ok" THEN g
    ELSE SetupPin(g, mode, channel, direction, initial, failAt)

(* setup of a single channel (the else branch) *)
SetupOne(g, mode, channel, direction, initial, failAt) ==
    IF g.err # "ok" THEN g
    ELSE IF Configured(g.exports, channel) THEN GpioReply(g, "AlreadyConfigured")
    ELSE SetupPin(g, mode, channel, direction, initial, failAt)

(* for ch in channel: setup(ch, direction, initial) *)
RECURSIVE SetupList(_, _, _, _, _, _)
SetupList(g, mode, channels, direction, initial, failAt) ==
    IF channels = <<>> \/ g.err # "ok" THEN g
    ELSE SetupList(SetupOne(g, mode, Head(channels), direction, initial, failAt),
                   mode, Tail(channels), direction, initial, failAt)

SetupRunNoModeCheck(g, mode, channels, list, direction, initial, failAt) ==
    IF list THEN SetupList(g, mode, channels, direction, initial, failAt)
    ELSE SetupOne(g, mode, channels[1], direction, initial, failAt)

SetupRun(g, mode, channels, list, direction, initial, failAt) ==
    IF mode = "None" THEN GpioReply(g, "ModeNotSet")
    ELSE IF list THEN SetupList(g, mode, channels, direction, initial, failAt)
    ELSE SetupOne(g, mode, channels[1], direction, initial, failAt)

setup(channels, list, direction, initial, failAt) ==
    /\ GpioCommit("setup",
                  [chs |-> channels, list |-> list, dir |-> direction,
                   vals |-> <<initial>>, vlist |-> FALSE, fail |-> failAt],
                  SetupRun(GpioBegin, _mode, channels, list, direction, initial, failAt))
    /\ UNCHANGED <<_mode, _gpio_warnings, queue, dispatcher, waiter>>
    /\ UNCHANGED pwm_vars

(* input(channel): readable in both directions *)
InputRun(g, mode, channel, failAt) ==
    LET c == _check_configured(g.exports, channel, "")
    IN  IF c # "ok" THEN GpioReply(g, c)
        ELSE GCall(g, "input", get_gpio_pin(mode, channel), 0, failAt)

input(channel, failAt) ==
    /\ GpioCommit("input",
                  [NoArgs EXCEPT !.chs = <<channel>>, !.fail = failAt],
                  InputRun(GpioBegin, _mode, channel, failAt))
    /\ UNCHANGED <<_mode, _gpio_warnings, queue, dispatcher, waiter>>
    /\ UNCHANGED pwm_vars

(* The value the surface is handed for a state: a number as it is, a tuple *)
(* as the surface takes it (tupleAs: 0, 1, or 2 when it rejects a tuple).  *)
StateValue(vals, vlist, tupleAs) == IF vlist THEN tupleAs ELSE vals[1]

(* output of a single channel (the else branch) *)
OutputOne(g, mode, channel, value, failAt) ==
    IF g.err # "ok" THEN g
    ELSE LET c == _check_configured(g.exports, channel, "OUT")
         IN  IF c # "ok" THEN GpioReply(g, c)
             ELSE LET g1 == GCall(g, "output", get_gpio_pin(mode, channel), value, failAt)
                  IN  IF g1.err = "ok" THEN [g1 EXCEPT !.lw[channel] = value] ELSE g1

(* for ch in channel: output(ch, state) *)
RECURSIVE OutputList(_, _, _, _, _)
OutputList(g, mode, channels, value, failAt) ==
    IF channels = <<>> \/ g.err # "ok" THEN g
    ELSE OutputList(OutputOne(g, mode, Head(channels), value, failAt),
                    mode, Tail(channels), value, failAt)

OutputRun(g, mode, channels, list, value, failAt) ==
    IF list THEN OutputList(g, mode, channels, value, failAt)
    ELSE OutputOne(g, mode, channels[1], value, failAt)

output(channels, list, vals, vlist, tupleAs, failAt) ==
    /\ GpioCommit("output",
                  [chs |-> channels, list |-> list, dir |-> "", vals |-> vals,
                   vlist |-> vlist, fail |-> failAt],
                  OutputRun(GpioBegin, _mode, channels, list,
                            StateValue(vals, vlist, tupleAs), failAt))
    /\ UNCHANGED <<_mode, _gpio_warnings, queue, dispatcher, waiter>>
    /\ UNCHANGED pwm_vars

(* cleanup(channel) of a single channel (the else branch):                 *)
(* _check_configured, event.cleanup(pin), sysfs.unexport(pin),             *)
(* del _exports[channel].                                                  *)
CleanupOne(g, mode, channel, failAt) ==
    IF g.err # "ok" THEN g
    ELSE LET c == _check_configured(g.exports, channel, "")
             pin == get_gpio_pin(mode, channel)
         IN  IF c # "ok" THEN GpioReply(g, c)
             ELSE LET g1 == GCall(Event_Cleanup(g, pin), "unexport", pin, 0, failAt)
                  IN  IF g1.err # "ok" THEN g1
                      ELSE [g1 EXCEPT !.exports = Without(g1.exports, channel),
                                      !.sp[channel] = 0,
                                      !.lw[channel] = NoValue]

(* for ch in channel: cleanup(ch) -- the first exception ends the loop *)
RECURSIVE CleanupList(_, _, _, _)
CleanupList(g, mode, channels, failAt) ==
    IF channels = <<>> \/ g.err # "ok" THEN g
    ELSE CleanupList(CleanupOne(g, mode, Head(channels), failAt),
                     mode, Tail(channels), failAt)

Keys(exports) == [i \in 1..Len(exports) |-> exports[i].channel]

cleanup(channels, list, failAt) ==
    /\ GpioCommit("cleanup",
                  [NoArgs EXCEPT !.chs = channels, !.list = list, !.fail = failAt],
                  IF list THEN CleanupList(GpioBegin, _mode, channels, failAt)
                  ELSE CleanupOne(GpioBegin, _mode, channels[1], failAt))
    /\ UNCHANGED <<_mode, _gpio_warnings, queue, dispatcher, waiter>>
    /\ UNCHANGED pwm_vars

(* cleanup(): cleanup(list(_exports.keys())); setwarnings(True); _mode = None *)
cleanup_all(failAt) ==
    /\ LET g == CleanupList(GpioBegin, _mode, Keys(_exports), failAt)
       IN  /\ GpioCommit("cleanup_all",
                         [NoArgs EXCEPT !.chs = Keys(_exports), !.list = TRUE,
                                        !.fail = failAt], g)
           /\ _gpio_warnings' = IF g.err = "ok" THEN TRUE ELSE _gpio_warnings
           /\ _mode' = IF g.err = "ok" THEN "None" ELSE _mode
    /\ UNCHANGED <<queue, dispatcher, waiter>>
    /\ UNCHANGED pwm_vars

(***************************************************************************)
(* The edge detection engine and the callback dispatcher.  A watched pin   *)
(* has a trigger, a latch and a list of callbacks; its watcher handles the *)
(* qualifying edges one at a time: it sets the latch and hands every       *)
(* registered callback to the dispatcher's queue.                          *)
(***************************************************************************)
Triggers == {"RISING", "FALLING", "BOTH"}

EventLog(g, fn, pin) ==
    [g EXCEPT !.log = Append(g.log, [fn |-> fn, pin |-> pin, arg |-> 0,
                                     err |-> g.err])]

(* add_edge_detect: Idle -> Watching; callback 0 is None *)
Event_Add_Edge_Detect(g, pin, trigger, callback) ==
    EventLog(IF g.thr[pin].on THEN GpioReply(g, "AlreadyWatching")
             ELSE IF pin \notin g.pins THEN GpioReply(g, "notfound")
             ELSE [g EXCEPT !.thr[pin] =
                       [NoWatch EXCEPT !.on = TRUE, !.trigger = trigger,
                                       !.cbs = IF callback.id = 0 THEN <<>>
                                               ELSE <<callback>>]],
             "event.add_edge_detect", pin)

(* add_edge_callback: appends to the callbacks of a Watching pin *)
Event_Add_Edge_Callback(g, pin, callback) ==
    EventLog(IF ~g.thr[pin].on THEN GpioReply(g, "NotWatching")
             ELSE [g EXCEPT !.thr[pin].cbs = Append(g.thr[pin].cbs, callback)],
             "event.add_edge_callback", pin)

(* edge_detected: reads and clears the latch; the record of the call      *)
(* carries the number of edges latched since the previous call            *)
Polled(g, pin) ==
    Append(g.log, [fn |-> "event.edge_detected", pin |-> pin,
                   arg |-> g.thr[pin].edges, err |-> "ok"])

Event_Edge_DetectedKeeping(g, pin) ==
    [g EXCEPT !.ret = IF g.thr[pin].latch THEN 1 ELSE 0,
              !.thr[pin].edges = 0,
              !.log = Polled(g, pin)]

Event_Edge_Detected(g, pin) ==
    [g EXCEPT !.ret = IF g.thr[pin].latch THEN 1 ELSE 0,
              !.thr[pin].latch = FALSE,
              !.thr[pin].edges = 0,
              !.log = Polled(g, pin)]

(* remove_edge_detect: stops and joins the watcher; Watching -> Idle *)
Event_Remove_Edge_Detect(g, pin) ==
    EventLog([g EXCEPT !.thr[pin] = NoWatch], "event.remove_edge_detect", pin)

(* The level of a pin after an edge of the kind the trigger asks for. *)
LevelAfter(trigger, level) ==
    CASE trigger = "RISING" -> 1
      [] trigger = "FALLING" -> 0
      [] OTHER -> 1 - level

(* blocking_wait_for_edge: returns the pin when an edge of the trigger     *)
(* arrives (edge), None when the timeout elapses first; ret 1 = not None   *)
Event_Blocking_Wait_For_Edge(g, pin, trigger, edge) ==
    EventLog(IF pin \notin g.pins THEN GpioReply(g, "notfound")
             ELSE IF edge
             THEN [g EXCEPT !.ret = 1,
                            !.s.val[pin] = LevelAfter(trigger, g.s.val[pin])]
             ELSE g,
             "event.blocking_wait_for_edge", pin)

(* __wrap(callback, channel): the callback is called with the channel *)
Wrap(callback, channel) == [id |-> callback, channel |-> channel]

(* The edge operations of GPIO.py: _check_configured(channel, IN), the pin *)
(* of the channel, the call of the event module.                           *)
EdgeGuard(g, channel) == _check_configured(g.exports, channel, "IN")

AddEventDetectRun(g, mode, channel, trigger, callback) ==
    IF EdgeGuard(g, channel) # "ok" THEN GpioReply(g, EdgeGuard(g, channel))
    ELSE Event_Add_Edge_Detect(g, get_gpio_pin(mode, channel), trigger,
                               Wrap(callback, channel))

add_event_detect(channel, trigger, callback) ==
    /\ GpioCommit("add_event_detect",
                  [NoArgs EXCEPT !.chs = <<channel>>, !.dir = trigger,
                                 !.vals = <<callback>>],
                  AddEventDetectRun(GpioBegin, _mode, channel, trigger, callback))
    /\ UNCHANGED <<_mode, _gpio_warnings, queue, dispatcher, waiter>>
    /\ UNCHANGED pwm_vars

RemoveEventDetectRun(g, mode, channel) ==
    IF EdgeGuard(g, channel) # "ok" THEN GpioReply(g, EdgeGuard(g, channel))
    ELSE Event_Remove_Edge_Detect(g, get_gpio_pin(mode, channel))

remove_event_detect(channel) ==
    /\ GpioCommit("remove_event_detect", [NoArgs EXCEPT !.chs = <<channel>>],
                  RemoveEventDetectRun(GpioBegin, _mode, channel))
    /\ UNCHANGED <<_mode, _gpio_warnings, queue, dispatcher, waiter>>
    /\ UNCHANGED pwm_vars

AddEventCallbackRun(g, mode, channel, callback) ==
    IF EdgeGuard(g, channel) # "ok" THEN GpioReply(g, EdgeGuard(g, channel))
    ELSE Event_Add_Edge_Callback(g, get_gpio_pin(mode, channel),
                                 Wrap(callback, channel))

add_event_callback(channel, callback) ==
    /\ Len(_threads[get_gpio_pin(_mode, channel)].cbs) < MaxCallbacks
    /\ GpioCommit("add_event_callback",
                  [NoArgs EXCEPT !.chs = <<channel>>, !.vals = <<callback>>],
                  AddEventCallbackRun(GpioBegin, _mode, channel, callback))
    /\ UNCHANGED <<_mode, _gpio_warnings, queue, dispatcher, waiter>>
    /\ UNCHANGED pwm_vars

EventDetectedRun(g, mode, channel) ==
    IF EdgeGuard(g, channel) # "ok" THEN GpioReply(g, EdgeGuard(g, channel))
    ELSE Event_Edge_Detected(g, get_gpio_pin(mode, channel))

event_detected(channel) ==
    /\ GpioCommit("event_detected", [NoArgs EXCEPT !.chs = <<channel>>],
                  EventDetectedRun(GpioBegin, _mode, channel))
    /\ UNCHANGED <<_mode, _gpio_warnings, queue, dispatcher, waiter>>
    /\ UNCHANGED pwm_vars

(* wait_for_edge returns the channel if the wait returned a pin *)
WaitForEdgeRun(g, mode, channel, trigger, edge) ==
    IF EdgeGuard(g, channel) # "ok" THEN GpioReply(g, EdgeGuard(g, channel))
    ELSE LET g1 == Event_Blocking_Wait_For_Edge(g, get_gpio_pin(mode, channel),
                                                trigger, edge)
         IN  [g1 EXCEPT !.ret = IF g1.ret = NoValue THEN NoValue ELSE channel]

wait_for_edge(channel, trigger, timeout, edge) ==
    /\ timeout < 0 => edge
    /\ GpioCommit("wait_for_edge",
                  [NoArgs EXCEPT !.chs = <<channel>>, !.dir = trigger,
                                 !.vals = <<timeout>>],
                  WaitForEdgeRun(GpioBegin, _mode, channel, trigger, edge))
    /\ UNCHANGED <<_mode, _gpio_warnings, queue, dispatcher, waiter>>
    /\ UNCHANGED pwm_vars

(* wait_for_edge step by step: the call checks the channel, arms the pin  *)
(* and blocks the calling thread; a failed check returns at once.          *)
WaitForEdgeEnter(channel, trigger, timeout) ==
    /\ ~waiter.on
    /\ LET g == WaitForEdgeRun(GpioBegin, _mode, channel, trigger, FALSE)
       IN  /\ GpioCommit("wait_for_edge",
                         [NoArgs EXCEPT !.chs = <<channel>>, !.dir = trigger,
                                        !.vals = <<timeout>>], g)
           /\ waiter' = IF g.err # "ok" THEN waiter
                        ELSE [on |-> TRUE, channel |-> channel,
                              pin |-> get_gpio_pin(_mode, channel),
                              trigger |-> trigger, timeout |-> timeout,
                              edge |-> FALSE, expired |-> FALSE]
    /\ UNCHANGED <<_mode, _gpio_warnings, queue, dispatcher>>
    /\ UNCHANGED pwm_vars

(* A wait with this timeout ends when the time is over; a negative timeout *)
(* waits without bound.                                                    *)
ElapsesPositive(timeout) == timeout > 0

Elapses(timeout) == timeout >= 0

(* The timeout of the blocked call elapses before an edge arrived. *)
WaitElapse ==
    /\ waiter.on
    /\ ~waiter.edge
    /\ ~waiter.expired
    /\ Elapses(waiter.timeout)
    /\ waiter' = [waiter EXCEPT !.expired = TRUE]
    /\ UNCHANGED <<_mode, _exports, _gpio_warnings, gpio_pins, gpio_sys,
                   gpio_last, gpio_in, gpio_log, gpio_ret,
                   setup_pin, last_write, _threads, queue, dispatcher>>
    /\ UNCHANGED pwm_vars

(* The blocked call returns: the channel after an edge, None after the     *)
(* timeout.                                                                *)
WaitForEdgeReturn ==
    /\ waiter.on
    /\ waiter.edge \/ waiter.expired
    /\ waiter' = NoWait
    /\ gpio_last' = GpioCall("wait_for_edge_return", waiter.channel, "ok")
    /\ gpio_in' = [NoArgs EXCEPT !.chs = <<waiter.channel>>,
                                 !.dir = waiter.trigger,
                                 !.vals = <<waiter.timeout>>]
    /\ gpio_log' = <<>>
    /\ gpio_ret' = IF waiter.edge THEN waiter.channel ELSE NoValue
    /\ UNCHANGED <<_mode, _exports, _gpio_warnings, gpio_pins, gpio_sys,
                   setup_pin, last_write, _threads, queue, dispatcher>>
    /\ UNCHANGED pwm_vars

(* The record of a step that is not a call of the program. *)
NoGpioCall(op, pin) ==
    /\ gpio_last' = GpioCall(op, pin, "ok")
    /\ gpio_in' = NoArgs
    /\ gpio_log' = <<>>
    /\ gpio_ret' = NoValue

Qualifies(trigger, level) ==
    \/ trigger = "BOTH"
    \/ trigger = "RISING" /\ level = 1
    \/ trigger = "FALLING" /\ level = 0

(* A call of wait_for_edge is blocked on the pin: armed, no edge seen, the *)
(* timeout not elapsed                                                     *)
Waits(w, pin) == w.on /\ w.pin = pin /\ ~w.edge /\ ~w.expired

(* The level of an exported input changes; an edge that qualifies for the  *)
(* pin's watch is pending until the watcher handles it, one that qualifies *)
(* for a blocked wait_for_edge ends the wait.                              *)
Edge(pin) ==
    /\ pin \in gpio_pins
    /\ gpio_sys.dir[pin] = "in"
    /\ _threads[pin].on => _threads[pin].pending < MaxPending
    /\ LET level == 1 - gpio_sys.val[pin]
       IN  /\ gpio_sys' = [gpio_sys EXCEPT !.val[pin] = level]
           /\ _threads' = IF _threads[pin].on /\ Qualifies(_threads[pin].trigger, level)
                          THEN [_threads EXCEPT ![pin].pending = @ + 1]
                          ELSE _threads
           /\ waiter' = IF Waits(waiter, pin) /\ Qualifies(waiter.trigger, level)
                        THEN [waiter EXCEPT !.edge = TRUE]
                        ELSE waiter
    /\ NoGpioCall("edge", pin)
    /\ UNCHANGED <<_mode, _exports, _gpio_warnings, gpio_pins, setup_pin,
                   last_write, queue, dispatcher>>
    /\ UNCHANGED pwm_vars

(* The enqueued callbacks of a pin: (pin, handler) pairs in registration   *)
(* order; idx is the handler's place in the registration list              *)
HandlersReversed(pin, cbs) ==
    [i \in 1..Len(cbs) |-> [pin |-> pin, cb |-> cbs[Len(cbs) + 1 - i],
                            idx |-> Len(cbs) + 1 - i]]

Handlers(pin, cbs) ==
    [i \in 1..Len(cbs) |-> [pin |-> pin, cb |-> cbs[i], idx |-> i]]

(* The watcher of a pin handles one pending edge. *)
WatcherLatch(pin) ==
    /\ _threads[pin].on
    /\ _threads[pin].pending > 0
    /\ Len(queue) + Len(_threads[pin].cbs) <= MaxQueue
    /\ _threads' = [_threads EXCEPT ![pin].pending = @ - 1,
                                    ![pin].latch = TRUE,
                                    ![pin].edges = IF @ = 0 THEN 1 ELSE 2]
    /\ queue' = queue \o Handlers(pin, _threads[pin].cbs)
    /\ NoGpioCall("latch", pin)
    /\ UNCHANGED <<_mode, _exports, _gpio_warnings, gpio_pins, gpio_sys,
                   setup_pin, last_write, dispatcher, waiter>>
    /\ UNCHANGED pwm_vars

(* The dispatcher may take the next callback. *)
DispatcherFree(d) == d.running = {}

(* The dispatcher, idle, takes the callback at the head of its queue and   *)
(* starts it.                                                              *)
DispatchStart ==
    /\ queue # <<>>
    /\ DispatcherFree(dispatcher)
    /\ queue' = Tail(queue)
    /\ dispatcher' = [running |-> dispatcher.running \cup {Head(queue)},
                      prev |-> [dispatcher.prev EXCEPT ![Head(queue).pin] =
                                    Head(queue).idx]]
    /\ UNCHANGED <<_mode, _exports, _gpio_warnings, gpio_pins, gpio_sys,
                   gpio_last, gpio_in, gpio_log, gpio_ret,
                   setup_pin, last_write, _threads, waiter>>
    /\ UNCHANGED pwm_vars

(* The running callback returns. *)
DispatchFinish ==
    /\ \E e \in dispatcher.running :
            dispatcher' = [dispatcher EXCEPT !.running = @ \ {e}]
    /\ UNCHANGED <<_mode, _exports, _gpio_warnings, gpio_pins, gpio_sys,
                   gpio_last, gpio_in, gpio_log, gpio_ret,
                   setup_pin, last_write, _threads, queue, waiter>>
    /\ UNCHANGED pwm_vars

(* The arguments the calls are made with. *)
AllChannels == [i \in 1..NumChannels |-> i]
ChannelLists == {<<a, b>> : a \in Channels, b \in Channels}
Initials == {NoValue, 0, 1}
TupleValues == {<<1, 0>>, <<0, 1>>}

(* The ledger under changes of the numbering scheme. *)
NextLedger ==
    \/ \E m \in {"BOARD", "BCM", "invalid"} : setmode(m)
    \/ \E c \in Channels, d \in Directions : setup(<<c>>, FALSE, d, NoValue, 0)
    \/ \E l \in ChannelLists, d \in Directions : setup(l, TRUE, d, NoValue, 0)
    \/ \E c \in Channels : cleanup(<<c>>, FALSE, 0)
    \/ cleanup_all(0)

SpecLedger == Init /\ [][NextLedger]_vars

(* Cleanups under changes of the numbering scheme and I/O errors. *)
NextCleanup ==
    \/ \E m \in {"BOARD", "BCM"} : setmode(m)
    \/ setwarnings(FALSE)
    \/ getmode
    \/ \E c \in Channels, d \in Directions, f \in FailPoints(2) :
            setup(<<c>>, FALSE, d, NoValue, f)
    \/ \E c \in Channels : cleanup(<<c>>, FALSE, 0)
    \/ \E f \in FailPoints(1) : cleanup_all(f)

SpecCleanup == Init /\ [][NextCleanup]_vars

(* The ledger with reads and writes of single channels. *)
NextGPIO ==
    \/ \E m \in {"BOARD", "BCM", "invalid"} : setmode(m)
    \/ \E e \in BOOLEAN : setwarnings(e)
    \/ getmode
    \/ \E c \in Channels, d \in Directions, i \in Initials :
            setup(<<c>>, FALSE, d, i, 0)
    \/ \E l \in ChannelLists, d \in Directions : setup(l, TRUE, d, NoValue, 0)
    \/ \E c \in Channels : input(c, 0)
    \/ \E c \in Channels, v \in {0, 1} : output(<<c>>, FALSE, <<v>>, FALSE, 0, 0)
    \/ \E c \in Channels : cleanup(<<c>>, FALSE, 0)
    \/ \E f \in FailPoints(1) : cleanup_all(f)

SpecGPIO == Init /\ [][NextGPIO]_vars

(* Batched writes under one numbering scheme. *)
NextBatch ==
    \/ \E m \in {"BOARD", "mapping", "invalid"} : _mode = "None" /\ setmode(m)
    \/ \E l \in ChannelLists, d \in Directions, i \in Initials :
            setup(l, TRUE, d, i, 0)
    \/ \E c \in Channels : input(c, 0)
    \/ \E c \in Channels, v \in {0, 1} : output(<<c>>, FALSE, <<v>>, FALSE, 0, 0)
    \/ \E l \in ChannelLists, v \in {0, 1} : output(l, TRUE, <<v>>, FALSE, 0, 0)
    \/ \E l \in ChannelLists, t \in TupleValues, a \in 0..2 :
            output(l, TRUE, t, TRUE, a, 0)
    \/ \E l \in ChannelLists : cleanup(l, TRUE, 0)
    \/ cleanup_all(0)

SpecBatch == Init /\ [][NextBatch]_vars

(* The guarded operations, on channels of both directions. *)
NextGuard ==
    \/ \E m \in {"BOARD", "BCM"} : _mode = "None" /\ setmode(m)
    \/ \E c \in Channels, d \in Directions : setup(<<c>>, FALSE, d, NoValue, 0)
    \/ \E c \in Channels : input(c, 0)
    \/ \E c \in Channels : output(<<c>>, FALSE, <<1>>, FALSE, 0, 0)
    \/ \E c \in Channels : wait_for_edge(c, "RISING", 0, FALSE)
    \/ \E c \in Channels : add_event_detect(c, "RISING", 0)
    \/ \E c \in Channels : add_event_callback(c, 1)
    \/ \E c \in Channels : event_detected(c)
    \/ \E c \in Channels : remove_event_detect(c)
    \/ \E c \in Channels : cleanup(<<c>>, FALSE, 0)
    \/ cleanup_all(0)

SpecGuard == Init /\ [][NextGuard]_vars

(* Edge detection with its watchers, under changes of the numbering scheme. *)
NextEvent ==
    \/ \E m \in {"BOARD", "BCM"} : setmode(m)
    \/ \E c \in Channels, d \in Directions : setup(<<c>>, FALSE, d, NoValue, 0)
    \/ \E c \in Channels : add_event_detect(c, "BOTH", 0)
    \/ \E c \in Channels : remove_event_detect(c)
    \/ \E c \in Channels : cleanup(<<c>>, FALSE, 0)
    \/ \E p \in Pins : Edge(p)
    \/ \E p \in Pins : WatcherLatch(p)

SpecEvent == Init /\ [][NextEvent]_vars

(* One scheme: a polling reader and the watchers of the pins. *)
NextPoll ==
    \/ _mode = "None" /\ setmode("BOARD")
    \/ setup(AllChannels, TRUE, "IN", NoValue, 0)
    \/ \E c \in Channels : add_event_detect(c, "RISING", 0)
    \/ \E c \in Channels : event_detected(c)
    \/ \E c \in Channels : remove_event_detect(c)
    \/ \E p \in Pins : Edge(p)
    \/ \E p \in Pins : WatcherLatch(p)

SpecPoll == Init /\ [][NextPoll]_vars

(* The channels put under edge detection: the one whose callbacks are      *)
(* followed and one other whose edges arrive in between                    *)
EdgeChannels == {1, 2}

(* One scheme: callbacks on two pins, their watchers and the dispatcher. *)
NextDispatch ==
    \/ _mode = "None" /\ setmode("BOARD")
    \/ setup(AllChannels, TRUE, "IN", NoValue, 0)
    \/ \E c \in EdgeChannels : add_event_detect(c, "BOTH", 1)
    \/ \E c \in EdgeChannels : add_event_callback(c, 2)
    \/ \E p \in Pins : _threads[p].on /\ Edge(p)
    \/ \E p \in Pins : WatcherLatch(p)
    \/ DispatchStart
    \/ DispatchFinish

SpecDispatch == Init /\ [][NextDispatch]_vars

Timeouts == {-1, 0, 1}

(* One caller thread: it makes no other call while wait_for_edge blocks. *)
NextWait ==
    \/ _mode = "None" /\ setmode("BOARD")
    \/ ~waiter.on /\ setup(AllChannels, TRUE, "IN", NoValue, 0)
    \/ \E c \in Channels, t \in Triggers, timeout \in Timeouts :
            WaitForEdgeEnter(c, t, timeout)
    \/ \E p \in Pins : Edge(p)
    \/ WaitElapse
    \/ WaitForEdgeReturn

SpecWait == Init /\ [][NextWait]_vars

(* Time passes and the calling thread is scheduled. *)
SpecWaitFair == SpecWait /\ WF_vars(WaitElapse) /\ WF_vars(WaitForEdgeReturn)

(* One scheme: setups of single channels with an I/O error at any of the  *)
(* calls of setup (export, unexport, export, direction, output).           *)
NextRetry ==
    \/ _mode = "None" /\ setmode("BOARD")
    \/ \E c \in Channels, d \in Directions, i \in {NoValue, 1}, f \in FailPoints(5) :
            setup(<<c>>, FALSE, d, i, f)
    \/ cleanup_all(0)

SpecRetry == Init /\ [][NextRetry]_vars

(* Lists of distinct channels *)
DistinctLists == {l \in ChannelLists : \A i, j \in 1..Len(l) : l[i] = l[j] => i = j}

(* One scheme: single and batch setups and cleanups with an I/O error at   *)
(* any call of the control surface.                                        *)
NextFail ==
    \/ _mode = "None" /\ setmode("BOARD")
    \/ \E c \in Channels, d \in Directions : setup(<<c>>, FALSE, d, NoValue, 0)
    \/ \E l \in DistinctLists, d \in Directions, i \in {NoValue, 1}, f \in FailPoints(4) :
            setup(l, TRUE, d, i, f)
    \/ \E c \in Channels : add_event_detect(c, "BOTH", 0)
    \/ \E l \in DistinctLists, f \in FailPoints(2) : cleanup(l, TRUE, f)

SpecFail == Init /\ [][NextFail]_vars

(***************************************************************************)
(* Properties of the PWM controller.                                       *)
(***************************************************************************)
(* v is an integer nearest to n / d. *)
Nearest(v, n, d) ==
    LET e == n - v * d
    IN  IF e >= 0 THEN 2 * e <= d ELSE 2 * (0 - e) <= d

(* The write of a log entry leaves duty-cycle-length <= period-length. *)
WriteSafe(e) ==
    CASE e.attr = "period" -> e.duty_cycle <= e.val
      [] e.attr = "duty_cycle" -> e.val <= e.period
      [] OTHER -> TRUE

Other(attr) == IF attr = "period" THEN "duty_cycle" ELSE "period"

(* C1: for a channel whose duty-cycle percentage is within 0..100, every   *)
(* write of every change_frequency call in a sequence of such calls leaves *)
(* duty-cycle-length <= period-length, and the period is written first     *)
(* exactly when the new period is greater than the old one.                *)
C1_ChangeFrequencyWritesSafe ==
    [][(last'.op = "change_frequency" /\ InRange(duty_cycle_percent)) =>
          /\ \A i \in 1..Len(log') : WriteSafe(log'[i])
          /\ Len(log') >= 1
          /\ log'[1].attr = (IF PeriodOf(last'.arg) > PeriodOf(frequency)
                             THEN "period" ELSE "duty_cycle")
          /\ Len(log') = 2 => log'[2].attr = Other(log'[1].attr)]_vars

C3_ConstructionCompletes ==
    (last.op = "PWM" /\ last.res = "ok") =>
        /\ life = "open"
        /\ sys.exported /\ sys.enable
        /\ sys.polarity = invert_polarity
        /\ sys.period = PeriodOf(frequency)
        /\ \E i, j, k \in 1..Len(log) :
              /\ i < j /\ j < k /\ k = Len(log)
              /\ log[i].attr = "polarity" /\ log[i].err = "ok"
              /\ log[j].attr = "enable" /\ log[j].err = "ok"
              /\ log[k].attr = "period" /\ log[k].err = "ok"
              /\ \E e \in 1..(i - 1) : log[e].attr = "export" /\ log[e].err = "ok"

(* C4: pwm_polarity never writes the polarity while the channel is         *)
(* enabled, and of two successive completed calls the second writes the    *)
(* opposite polarity of the first.                                         *)
C4_InvertTwiceRestores ==
    [][(last'.op = "pwm_polarity") =>
          /\ \A i \in Written(log', "polarity") : ~log'[i].enable
          /\ (last.op = "pwm_polarity" /\ last.res = "ok" /\ last'.res = "ok")
                => sys'.polarity # sys.polarity]_vars

(* C5: a successful change_frequency(f) has written the integer nearest to *)
(* 1e9 / f as period and the integer nearest to period * p / 100 as        *)
(* duty-cycle-length and stores f; a failed one leaves the stored          *)
(* frequency as it was.                                                    *)
C5_ChangeFrequencyValues ==
    [][(last'.op = "change_frequency") =>
          IF last'.res = "ok"
          THEN /\ frequency' = last'.arg
               /\ Len(log') = 2
               /\ \A i \in 1..2 : log'[i].err = "ok"
               /\ Written(log', "period") # {} /\ Written(log', "duty_cycle") # {}
               /\ Nearest(sys'.period, NS_PER_S, last'.arg)
               /\ Nearest(sys'.duty_cycle, sys'.period * duty_cycle_percent, 100)
               /\ \A i \in Written(log', "period") : log'[i].val = sys'.period
               /\ \A i \in Written(log', "duty_cycle") : log'[i].val = sys'.duty_cycle
          ELSE frequency' = frequency]_vars

(* A successful change to 6000 Hz, whose period and duty are both rounded. *)
C5_Witness ==
    /\ last.op = "change_frequency" /\ last.res = "ok" /\ last.arg = 6000
    /\ frequency = 6000 /\ duty_cycle_percent = 50
    /\ sys.period = 166667 /\ sys.duty_cycle = 83334

(* C6 as written: the duty-cycle-length of change_frequency(500) on a      *)
(* channel at 1000 Hz and 50% is 250,000,000 ns, written after the period. *)
C6_Original ==
    [][(last'.op = "change_frequency" /\ last'.arg = 500 /\ life = "open"
        /\ frequency = 1000 /\ duty_cycle_percent = 50) =>
          /\ Len(log') >= 1 /\ log'[1].attr = "period"
          /\ \A i \in Written(log', "duty_cycle") :
                i = 2 /\ log'[i].val = 250000000]_vars

(* C6: change_frequency(500) on a channel at 1000 Hz and 50% duty issues   *)
(* the period write (2,000,000 ns) first, and the duty-cycle-length it     *)
(* writes after it is 1,000,000 ns.                                        *)
C6_PeriodThenDuty ==
    [][(last'.op = "change_frequency" /\ last'.arg = 500 /\ life = "open"
        /\ frequency = 1000 /\ duty_cycle_percent = 50) =>
          /\ Len(log') >= 1 /\ log'[1].attr = "period" /\ log'[1].val = 2000000
          /\ \A i \in Written(log', "duty_cycle") :
                i = 2 /\ log'[i].val = 1000000
          /\ last'.res = "ok" => (Len(log') = 2 /\ sys'.duty_cycle = 1000000)]_vars

(* The scenario: the channel was at 1000 Hz (period 1,000,000 ns), 50%. *)
C6_Witness ==
    /\ last.op = "change_frequency" /\ last.arg = 500 /\ last.res = "ok"
    /\ life = "open" /\ duty_cycle_percent = 50 /\ frequency = 500
    /\ Len(log) = 2 /\ log[1].attr = "period" /\ log[1].period = 1000000
    /\ sys.period = 2000000 /\ sys.duty_cycle = 1000000

(* C7: every call on a controller object after its close fails with        *)
(* UnusableAfterClose and issues nothing to the control surface.           *)
C7_ClosedObjectUnusable ==
    (life = "closed" /\ ~(last.op = "pwm_close" /\ last.res = "ok")) =>
        (last.res = "UnusableAfterClose" /\ log = <<>>)

(* C8: duty_cycle(percent) with percent outside 0..100 fails with          *)
(* OutOfRange, issues no write and leaves the stored percentage; with      *)
(* percent in 0..100 it stores the percentage and writes the               *)
(* duty-cycle-length recomputed against the current period.                *)
C8_DutyCycleRange ==
    [][(last'.op = "duty_cycle") =>
          IF last'.arg < 0 \/ last'.arg > 100
          THEN /\ last'.res = "OutOfRange"
               /\ log' = <<>>
               /\ duty_cycle_percent' = duty_cycle_percent
               /\ sys' = sys
          ELSE /\ duty_cycle_percent' = last'.arg
               /\ last'.res # "OutOfRange"
               /\ life = "open" =>
                     /\ Len(log') = 1
                     /\ log'[1].attr = "duty_cycle"
                     /\ Nearest(log'[1].val, sys.period * last'.arg, 100)
                     /\ last'.res = "ok" => sys'.duty_cycle = log'[1].val]_vars

(* A running channel that has just refused a percentage of 150. *)
C8_Witness ==
    /\ last.op = "duty_cycle" /\ last.arg = 150 /\ last.res = "OutOfRange"
    /\ life = "open" /\ sys.enable /\ sys.duty_cycle > 0
    /\ duty_cycle_percent = 50

(* C9: stop writes a duty cycle of zero and changes nothing else on the    *)
(* channel or in the object, and a start that follows a stop writes the    *)
(* duty-cycle-length of the percentage configured before the stop.         *)
C9_StopFrame ==
    [][/\ (last'.op = "stop_pwm" /\ life = "open") =>
              /\ Len(log') = 1 /\ log'[1].attr = "duty_cycle" /\ log'[1].val = 0
              /\ last'.res = "ok" => sys'.duty_cycle = 0
              /\ sys'.exported = sys.exported /\ sys'.enable = sys.enable
              /\ sys'.period = sys.period /\ sys'.polarity = sys.polarity
              /\ life' = life /\ frequency' = frequency
              /\ duty_cycle_percent' = duty_cycle_percent
              /\ invert_polarity' = invert_polarity
       /\ (last.op = "stop_pwm" /\ last'.op = "start_pwm" /\ life = "open") =>
              /\ Len(log') = 1 /\ log'[1].attr = "duty_cycle"
              /\ Nearest(log'[1].val, sys.period * duty_cycle_percent, 100)]_vars

(* A running channel stopped: the duty-cycle-length went from 50% to zero. *)
C9_Witness ==
    /\ last.op = "stop_pwm" /\ last.res = "ok" /\ life = "open"
    /\ sys.exported /\ sys.enable /\ sys.duty_cycle = 0 /\ sys.period > 0
    /\ duty_cycle_percent = 50 /\ Len(log) = 1 /\ log[1].duty_cycle > 0

(***************************************************************************)
(* Properties of the GPIO module.                                          *)
(***************************************************************************)
(* C10: once a numbering scheme is set, no setmode call changes it. *)
C10_ModeSetOnce ==
    [][(_mode # "None" /\ gpio_last'.op = "setmode") => _mode' = _mode]_vars

(***************************************************************************)
(* Properties of the ledger of configured channels.                        *)
(***************************************************************************)
Range(q) == {q[i] : i \in 1..Len(q)}

(* C11: while no numbering scheme is set, every setup call, single or      *)
(* batch, fails with ModeNotSet, issues no call on the control surface,    *)
(* exports no pin and leaves the ledger unchanged.                         *)
C11_SetupNeedsMode ==
    [][(_mode = "None" /\ gpio_last'.op = "setup")
        => /\ gpio_last'.res = "ModeNotSet"
           /\ gpio_log' = <<>>
           /\ gpio_pins' = gpio_pins
           /\ _exports' = _exports]_vars

(* a batch setup has failed with ModeNotSet *)
C11_Witness ==
    /\ _mode = "None"
    /\ gpio_last.op = "setup"
    /\ gpio_last.res = "ModeNotSet"
    /\ gpio_in.list

Unique(exports) ==
    \A i, j \in 1..Len(exports) : exports[i].channel = exports[j].channel => i = j

(* C12: setup of a channel that has a ledger record fails with             *)
(* AlreadyConfigured whatever the direction, a single-channel setup        *)
(* without any call on the control surface, and the record stays as it     *)
(* was; no channel is recorded twice, and no step changes the direction    *)
(* of a channel that stays recorded.                                       *)
C12_AlreadyConfigured ==
    [][/\ (gpio_last'.op = "setup" /\ ~gpio_in'.list
            /\ Configured(_exports, gpio_in'.chs[1]))
          => /\ gpio_last'.res = "AlreadyConfigured"
             /\ gpio_log' = <<>>
             /\ _exports' = _exports
       /\ (gpio_last'.op = "setup" /\ gpio_in'.list
            /\ \E c \in Range(gpio_in'.chs) : Configured(_exports, c))
          => gpio_last'.res = "AlreadyConfigured"
       /\ Unique(_exports')
       /\ \A c \in Channels :
            (Configured(_exports, c) /\ Configured(_exports', c))
            => DirectionOf(_exports', c) = DirectionOf(_exports, c)]_vars

(* a setup asking for the other direction has been refused *)
C12_Witness ==
    /\ gpio_last.op = "setup"
    /\ gpio_last.res = "AlreadyConfigured"
    /\ ~gpio_in.list
    /\ Configured(_exports, gpio_in.chs[1])
    /\ DirectionOf(_exports, gpio_in.chs[1]) # gpio_in.dir

(* C14: cleanup of a channel without ledger record fails with              *)
(* NotConfigured and calls nothing on the control surface; a cleanup of a  *)
(* configured channel that returns has unexported the pin the channel's    *)
(* setup exported and has removed the record.                              *)
C14_CleanupReleases ==
    [][(gpio_last'.op = "cleanup" /\ ~gpio_in'.list)
        => LET c == gpio_in'.chs[1]
           IN  /\ ~Configured(_exports, c)
                  => /\ gpio_last'.res = "NotConfigured"
                     /\ gpio_log' = <<>>
                     /\ gpio_pins' = gpio_pins
               /\ (Configured(_exports, c) /\ gpio_last'.res = "ok")
                  => /\ setup_pin[c] \notin gpio_pins'
                     /\ ~Configured(_exports', c)]_vars

(* C15: the setup of an output with an initial value writes that value     *)
(* before it returns; a read of an output channel returns the value last   *)
(* written to the channel (the initial value until the first write); a     *)
(* read of a channel without record fails with NotConfigured.              *)
C15_ReadsLastWrite ==
    [][/\ (gpio_last'.op = "setup" /\ ~gpio_in'.list /\ gpio_last'.res = "ok"
            /\ gpio_in'.dir = "OUT" /\ gpio_in'.vals[1] # NoValue)
          => /\ \E i \in 1..Len(gpio_log') :
                    /\ gpio_log'[i].fn = "output"
                    /\ gpio_log'[i].arg = gpio_in'.vals[1]
                    /\ gpio_log'[i].err = "ok"
             /\ last_write'[gpio_in'.chs[1]] = gpio_in'.vals[1]
       /\ gpio_last'.op = "input"
          => LET c == gpio_in'.chs[1]
             IN  /\ ~Configured(_exports, c) => gpio_last'.res = "NotConfigured"
                 /\ (Configured(_exports, c) /\ last_write[c] # NoValue)
                    => /\ gpio_last'.res = "ok"
                       /\ gpio_ret' = last_write[c]]_vars

(* C16: a full cleanup that returns leaves the ledger empty, the pins of   *)
(* the channels that were configured unexported, the numbering scheme      *)
(* cleared and the warnings enabled; getmode returns the scheme; a failed  *)
(* release makes the full cleanup fail.                                    *)
C16_FullCleanup ==
    [][/\ (gpio_last'.op = "cleanup_all" /\ gpio_last'.res = "ok")
          => /\ _exports' = <<>>
             /\ \A c \in Channels :
                    Configured(_exports, c) => setup_pin[c] \notin gpio_pins'
             /\ _mode' = "None"
             /\ _gpio_warnings'
       /\ (gpio_last'.op = "cleanup_all"
            /\ \E i \in 1..Len(gpio_log') : gpio_log'[i].err # "ok")
          => gpio_last'.res # "ok"
       /\ gpio_last'.op = "getmode" => gpio_last'.res = _mode]_vars

AllDistinct(q) == \A i, j \in 1..Len(q) : q[i] = q[j] => i = j

(* C17: a batched output on distinct channels configured as outputs, whose *)
(* pins are those their setup exported, writes the i-th value of a list of *)
(* values to the i-th channel, and a single value to every channel.        *)
C17_BatchOutput ==
    [][(/\ gpio_last'.op = "output"
        /\ gpio_in'.list
        /\ AllDistinct(gpio_in'.chs)
        /\ \A c \in Range(gpio_in'.chs) :
                /\ _check_configured(_exports, c, "OUT") = "ok"
                /\ get_gpio_pin(_mode, c) = setup_pin[c])
        => /\ gpio_last'.res = "ok"
           /\ \A i \in 1..Len(gpio_in'.chs) :
                gpio_sys'.val[setup_pin[gpio_in'.chs[i]]]
                    = IF gpio_in'.vlist THEN gpio_in'.vals[i]
                      ELSE gpio_in'.vals[1]]_vars

(***************************************************************************)
(* Properties of the precondition guard and of the edge detection.         *)
(***************************************************************************)
EdgeOps == {"wait_for_edge", "add_event_detect", "add_event_callback",
            "event_detected", "remove_event_detect"}

GuardFailures == {"NotConfigured", "WrongDirection"}

(* C13: a guarded operation fails with NotConfigured on a channel without  *)
(* record; output on an input channel and every edge operation on an       *)
(* output channel fail with WrongDirection and change nothing on the       *)
(* control surface or the edge watches; the guard passes when the required *)
(* direction is the recorded one, and for a read in both directions.       *)
C13_Guard ==
    [][(gpio_last'.op \in EdgeOps \cup {"input", "output"})
        => LET c == gpio_in'.chs[1]
               op == gpio_last'.op
               required == IF op = "input" THEN ""
                           ELSE IF op = "output" THEN "OUT" ELSE "IN"
           IN  IF ~Configured(_exports, c)
               THEN gpio_last'.res = "NotConfigured"
               ELSE IF required # "" /\ DirectionOf(_exports, c) # required
               THEN /\ gpio_last'.res = "WrongDirection"
                    /\ gpio_log' = <<>>
                    /\ gpio_sys' = gpio_sys
                    /\ _threads' = _threads
               ELSE gpio_last'.res \notin GuardFailures]_vars

(* an edge operation has been refused on an output channel *)
C13_Witness ==
    /\ gpio_last.op \in EdgeOps
    /\ gpio_last.res = "WrongDirection"
    /\ Configured(_exports, gpio_last.arg)
    /\ DirectionOf(_exports, gpio_last.arg) = "OUT"

InputChannelOf(pin) ==
    \E c \in Channels :
        /\ Configured(_exports, c)
        /\ DirectionOf(_exports, c) = "IN"
        /\ setup_pin[c] = pin

(* C18: every watched pin is the pin of a channel that the ledger records  *)
(* as an input.                                                            *)
C18_WatchedIsInput ==
    \A p \in Pins : _threads[p].on => InputChannelOf(p)

(* C19: when remove_event_detect or cleanup of a channel has returned, the *)
(* watcher of the channel's pin is stopped; cleanup removes the watch      *)
(* before it unexports; no watcher latches an edge for a pin that is not   *)
(* the pin of a configured input; a channel set up as input is Idle, and   *)
(* add_event_detect on a configured input whose pin is Idle succeeds.      *)
C19_WatcherJoined ==
    [][/\ (gpio_last'.op \in {"remove_event_detect", "cleanup"}
            /\ gpio_last'.res = "ok")
          => ~_threads'[setup_pin[gpio_in'.chs[1]]].on
       /\ gpio_last'.op = "cleanup"
          => \A i, j \in 1..Len(gpio_log') :
                (gpio_log'[i].fn = "unexport" /\ gpio_log'[j].fn = "event.cleanup")
                => j < i
       /\ gpio_last'.op = "latch" => InputChannelOf(gpio_last'.arg)
       /\ (gpio_last'.op = "setup" /\ gpio_last'.res = "ok" /\ gpio_in'.dir = "IN")
          => ~_threads'[setup_pin'[gpio_in'.chs[1]]].on
       /\ (gpio_last'.op = "add_event_detect"
            /\ Configured(_exports, gpio_in'.chs[1])
            /\ DirectionOf(_exports, gpio_in'.chs[1]) = "IN"
            /\ ~_threads[setup_pin[gpio_in'.chs[1]]].on)
          => gpio_last'.res = "ok"]_vars

PolledWatch == _threads[setup_pin[gpio_in'.chs[1]]]

IsPoll ==
    /\ gpio_last'.op = "event_detected"
    /\ gpio_last'.res = "ok"
    /\ PolledWatch.on

(* C20 as stated: a poll of a watched pin returns true exactly once per    *)
(* qualifying edge, so the edges latched since the previous poll are none  *)
(* and the poll returns false, or one and the poll returns true.           *)
C20_Original ==
    [][IsPoll => gpio_ret' = PolledWatch.edges]_vars

(* C20: a poll of a watched pin returns true exactly when at least one     *)
(* qualifying edge was latched since the previous poll (or since the       *)
(* detection was added) and clears the latch: edges latched between two    *)
(* polls are reported together, once; the latch is set exactly when such   *)
(* an edge is unreported.                                                  *)
C20_ReadClears ==
    [][/\ IsPoll
          => /\ gpio_ret' = IF PolledWatch.edges >= 1 THEN 1 ELSE 0
             /\ ~_threads'[setup_pin[gpio_in'.chs[1]]].latch
             /\ _threads'[setup_pin[gpio_in'.chs[1]]].edges = 0
       /\ \A p \in Pins : _threads'[p].latch <=> _threads'[p].edges >= 1]_vars

(* a poll has reported two latched edges with one true *)
C20_Witness ==
    /\ gpio_last.op = "event_detected"
    /\ gpio_ret = 1
    /\ gpio_log # <<>>
    /\ gpio_log[1].arg = 2
(***************************************************************************)
(* Properties of the callback dispatcher.                                  *)
(***************************************************************************)

(* The dispatcher starts a callback in this step *)
Starts == dispatcher'.running \ dispatcher.running

C22_WaitReturns ==
    /\ [][/\ waiter.on /\ ~waiter'.on =>
                /\ gpio_ret' = IF waiter.edge THEN waiter.channel ELSE NoValue
                /\ ~waiter.edge => waiter.timeout >= 0
                /\ waiter.timeout = 0 /\ ~waiter.edge => gpio_ret' = NoValue
          /\ waiter.on \/ waiter'.on =>
                /\ _threads' = _threads
                /\ queue' = queue
                /\ dispatcher' = dispatcher
         ]_vars
    /\ \A t \in Timeouts :
            (waiter.on /\ waiter.timeout = t /\ t >= 0) ~> ~waiter.on

(* A wait with timeout 0 and no edge has ended with None. *)
C22_Witness ==
    /\ gpio_last.op = "wait_for_edge_return"
    /\ gpio_in.vals = <<0>>
    /\ gpio_ret = NoValue
    /\ ~waiter.on

(***************************************************************************)
(* Properties of failing calls.                                            *)
(***************************************************************************)

(* The step is a setup of a single channel that reached the control surface *)
IsSetupOne == gpio_last'.op = "setup" /\ ~gpio_in'.list /\ gpio_log' # <<>>

(* C23: when the export of setup reports busy, setup unexports the pin and *)
(* exports it again, once; if that succeeds setup goes on with the          *)
(* direction and records the channel; if the unexport or the second export  *)
(* fails, or the first export fails otherwise, setup fails with that error  *)
(* and the ledger is as before.                                             *)
C23_BusyRetry ==
    [][IsSetupOne =>
        LET l == gpio_log'
            n == Len(gpio_log')
            c == gpio_in'.chs[1]
            res == gpio_last'.res
        IN  /\ l[1].fn = "export"
            /\ \A i \in 1..n : i < n => l[i].err \in {"ok", "busy"}
            /\ l[1].err = "busy" =>
                /\ n >= 2 /\ l[2].fn = "unexport" /\ l[2].pin = l[1].pin
                /\ l[2].err # "ok" =>
                        n = 2 /\ res = l[2].err /\ _exports' = _exports
                /\ l[2].err = "ok" =>
                        n >= 3 /\ l[3].fn = "export" /\ l[3].pin = l[1].pin
                /\ \A i \in 4..n : l[i].fn # "export"
                /\ n >= 3 /\ l[3].err # "ok" =>
                        n = 3 /\ res = l[3].err /\ _exports' = _exports
                /\ n >= 3 /\ l[3].err = "ok" =>
                        /\ n >= 4 /\ l[4].fn = "direction" /\ l[4].pin = l[1].pin
                        /\ l[4].err = "ok" => Configured(_exports', c)
                        /\ l[n].err = "ok" => res = "ok"
            /\ l[1].err \notin {"ok", "busy"} =>
                    n = 1 /\ res = l[1].err /\ _exports' = _exports
      ]_vars

(* A setup found its pin busy, exported it again and recorded the channel. *)
C23_Witness ==
    /\ gpio_last.op = "setup"
    /\ gpio_last.res = "ok"
    /\ Len(gpio_log) >= 4
    /\ gpio_log[1].err = "busy"
    /\ gpio_log[3].fn = "export" /\ gpio_log[3].err = "ok"
    /\ Configured(_exports, gpio_in.chs[1])

(* The channel is as it was before the step: its ledger record, its pin  *)
(* on the control surface and the pin's watch                               *)
MemberUntouched(c) ==
    LET p == get_gpio_pin(_mode, c)
    IN  /\ Configured(_exports', c) = Configured(_exports, c)
        /\ (p \in gpio_pins') = (p \in gpio_pins)
        /\ gpio_sys'.dir[p] = gpio_sys.dir[p]
        /\ gpio_sys'.val[p] = gpio_sys.val[p]
        /\ _threads'[p] = _threads[p]

(* The step applied the operation to the channel: configured it, released it *)
MemberApplied(op, c) ==
    LET p == get_gpio_pin(_mode, c)
    IN  IF op = "setup" THEN Configured(_exports', c) /\ p \in gpio_pins'
        ELSE ~Configured(_exports', c) /\ p \notin gpio_pins'

(* C24: a batch setup or cleanup of distinct channels works through the    *)
(* list in order and stops at the first failure, which it reports: the      *)
(* members before the failing one are configured (released), the failing    *)
(* member and those after it are as they were before the call.              *)
C24_BatchStops ==
    [][(gpio_last'.op \in {"setup", "cleanup"} /\ gpio_in'.list) =>
        LET chs == gpio_in'.chs
            op == gpio_last'.op
        IN  IF gpio_last'.res = "ok"
            THEN \A j \in 1..Len(chs) : MemberApplied(op, chs[j])
            ELSE \E k \in 1..Len(chs) :
                    /\ \A j \in 1..(k - 1) : MemberApplied(op, chs[j])
                    /\ \A j \in k..Len(chs) : MemberUntouched(chs[j])
                    /\ op = "setup" =>
                            Keys(_exports') = Keys(_exports) \o SubSeq(chs, 1, k - 1)
      ]_vars

(* C25: between calls a pin is exported by the program exactly if a channel *)
(* that resolves to it has a ledger record.                                 *)
C25_ExportedIffRecorded ==
    \A p \in Pins :
        p \in gpio_pins <=>
            \E c \in Channels : Configured(_exports, c) /\ get_gpio_pin(_mode, c) = p

(* C26: a call for a single configured channel (input, output, an edge    *)
(* operation, cleanup) reaches the control surface and the event module     *)
(* only for the pin that the channel's setup exported, whatever calls were  *)
(* made since the setup, setmode included; cleanup unexports that pin.      *)
C26_SamePin ==
    [][(/\ gpio_last'.op \in {"input", "output", "cleanup"} \cup EdgeOps
        /\ ~gpio_in'.list
        /\ Configured(_exports, gpio_in'.chs[1]))
        => LET c == gpio_in'.chs[1]
           IN  /\ \A i \in 1..Len(gpio_log') : gpio_log'[i].pin = setup_pin[c]
               /\ (gpio_last'.op = "cleanup" /\ gpio_last'.res = "ok")
                    => gpio_pins' = gpio_pins \ {setup_pin[c]}
      ]_vars

(***************************************************************************)
(* Properties of a stopped PWM channel.                                    *)
(***************************************************************************)

(* C27: after a stop that wrote the zero duty cycle, a call other than     *)
(* start and duty_cycle (change_frequency, pwm_polarity, stop again)        *)
(* leaves the duty-cycle-length on the control surface at zero.             *)
C27_StoppedStaysZero ==
    [][(/\ last.op = "stop_pwm"
        /\ last.res = "ok"
        /\ sys.duty_cycle = 0
        /\ last'.op \in {"change_frequency", "pwm_polarity", "stop_pwm"})
        => sys'.duty_cycle = 0
      ]_vars

====
